---- MODULE Spec2Model ----
(***************************************************************************)
(* Matchmaking and match life cycle of algo-rumble-service.                *)
(*                                                                         *)
(* Every handler is a coroutine: each `await` on the datastore, the queue  *)
(* store or the judge is a suspension point.  A handler that reads a row,  *)
(* awaits and then commits is modelled as a request in `inflight` holding  *)
(* the values its session read; its commit writes the columns the handler  *)
(* assigned (the ORM issues UPDATE ... SET <assigned columns> WHERE id),   *)
(* whatever other requests committed in between.  A select is taken to     *)
(* return the row as last committed.                                       *)
(*                                                                         *)
(* A queue entry is the record (user_id, rating); the sorted set is kept   *)
(* as a sequence in ascending score (enqueue time) order.  The JSON text   *)
(* of an entry is taken as an opaque member of the sorted set.             *)
(***************************************************************************)
EXTENDS Integers, Sequences, FiniteSets, TLC

\* ---------------------------------------------------------------- bounds
MaxMatches == 2
MaxInflight == 2
MaxQueue == 2
RatingSteps == 5
MaxFanout == 2
MaxNow == 61
MaxSnapshot == 3
\* the rating updates a match of the src/match routes goes through
MaxRated == 1

\* ------------------------------------------------------------- constants
Users == {"u1", "u2", "u3"}
Callers == {"u1", "u2"}
NoUser == "none"
NoProblem == "none"
K_FACTOR == 32
DEFAULT_RATING == 1000
HigherRating == 1200
MATCH_ACCEPTANCE_TIMEOUT == 15
AcceptDeadline == 60

Terminal == {"COMPLETED", "DECLINED", "CANCELLED"}
MatchStatus == {"CREATED", "PENDING", "ACTIVE"} \cup Terminal

VARIABLES
    rating,     \* users.rating
    queue,      \* sorted set "matchmaking_queue", ascending score
    marker,     \* users u for which the key queue:user:<u> exists
    matches,    \* table matches; the index is the match id
    catalog,    \* table problems (ids)
    timers,     \* sleeping timer tasks <<kind, match id>>
    inflight,   \* suspended handlers with the values their session read
    tick,       \* the process_match_queue coroutine
    notified,   \* <<match id, kind, reason>> of every notification sent so far
    sent,       \* notifications handed to the manager by the last step
    resp,       \* outcome of the handler that returned in the last step
    rated,      \* history: number of rating commits made for each match
    active_connections, \* WebSocketManager.active_connections: user -> list of sinks
    closed,     \* sinks whose send_json raises
    fanout,     \* suspended send_match_notification calls of the manager
    now         \* datetime.utcnow(), in seconds since the start_time of match 1

\* the connection manager and the clock
aux == <<active_connections, closed, fanout, now>>

vars == <<rating, queue, marker, matches, catalog, timers, inflight,
          tick, notified, sent, resp, rated, active_connections, closed, fanout, now>>

NoResp == <<"none", "none">>
Idle == [pc |-> "idle", players |-> <<>>, i |-> 0, m |-> 0, created_matches |-> <<>>]

MatchIds == DOMAIN matches
Participants(m) == {matches[m].player1_id, matches[m].player2_id}
Opponent(m, u) == IF matches[m].player1_id = u THEN matches[m].player2_id ELSE matches[m].player1_id

\* val is a set of integers: the rating read by find_match_service, the match
\* ids selected by cancel_expired_matches, empty otherwise
\* id tells two requests with equal values apart: the least number that no
\* equal request in S carries
Fresh(S, rec) ==
    [rec EXCEPT !.id = CHOOSE i \in 1..(Cardinality(S) + 1) :
                           /\ [rec EXCEPT !.id = i] \notin S
                           /\ \A j \in 1..(i - 1) : [rec EXCEPT !.id = j] \in S]
Req(op, m, u, a1, a2, val) ==
    Fresh(inflight, [id |-> 1, op |-> op, m |-> m, u |-> u, a1 |-> a1, a2 |-> a2, val |-> val])

\* a message handed to manager.send_match_notification: match, recipient,
\* the "type"/"status" discriminator and the reason it carries, if any
Note(m, u, kind, reason) == <<m, u, kind, reason>>
ToBoth(m, kind, reason) == {Note(m, u, kind, reason) : u \in Participants(m)}

\* --------------------------------------------------------------- rating
\* EloBreaks[k] is the least d = opponent_rating - player_rating at which
\* round(32 * (1 - 1/(1 + 10^(d/400)))) reaches k.
EloBreaks == <<-719, -523, -428, -364, -314, -273, -237, -205, -176, -149, -124,
               -100, -77, -54, -32, -10, 11, 33, 55, 78, 101, 125, 150, 177, 206,
               238, 274, 315, 365, 429, 524, 720>>

\* round(K_FACTOR * (1 - expected_score)), expected_score taken at
\* opponent_rating - player_rating = d
calculate_expected_score(d) == Cardinality({k \in 1..Len(EloBreaks) : EloBreaks[k] <= d})

\* a variant that scales the actual score by the whole K_FACTOR where the
\* doubled score needs half of it
calculate_new_ratingMut(current, opponent, actual2) ==
    current + calculate_expected_score(opponent - current) - K_FACTOR * (2 - actual2)

\* round(current + K_FACTOR * (actual - expected)); twice the actual score
\* is passed so that 1, 0.5 and 0 are the integers 2, 1 and 0
calculate_new_rating(current, opponent, actual2) ==
    current + calculate_expected_score(opponent - current) - (K_FACTOR \div 2) * (2 - actual2)

update_ratings_after_match(r, winner, loser) ==
    [r EXCEPT ![winner] = calculate_new_rating(r[winner], r[loser], 2),
              ![loser] = calculate_new_rating(r[loser], r[winner], 0)]

update_ratings_for_draw(r, p1, p2) ==
    [r EXCEPT ![p1] = calculate_new_rating(r[p1], r[p2], 1),
              ![p2] = calculate_new_rating(r[p2], r[p1], 1)]

\* ---------------------------------------------------------------- queue
has_active_matchMut(u) ==
    \E m \in MatchIds : /\ u \in Participants(m)
                        /\ matches[m].status \in {"ACTIVE", "CREATED"}
has_active_match(u) ==
    \E m \in MatchIds : /\ u \in Participants(m)
                        /\ matches[m].status \in {"ACTIVE", "PENDING", "CREATED"}

RECURSIVE RemoveFirst(_, _)
RemoveFirst(s, e) ==
    IF s = <<>> THEN <<>>
    ELSE IF Head(s) = e THEN Tail(s)
    ELSE <<Head(s)>> \o RemoveFirst(Tail(s), e)

RECURSIVE RemoveUser(_, _)
RemoveUser(s, u) ==
    IF s = <<>> THEN <<>>
    ELSE IF Head(s).user_id = u THEN Tail(s)
    ELSE <<Head(s)>> \o RemoveUser(Tail(s), u)

Abs(x) == IF x < 0 THEN -x ELSE x

\* the inner for loop: the first j > i with the least rating difference
BestMatchIdx(players, i) ==
    CHOOSE j \in (i + 1)..Len(players) :
        /\ \A k \in (i + 1)..Len(players) :
              Abs(players[i].rating - players[j].rating) <= Abs(players[i].rating - players[k].rating)
        /\ \A k \in (i + 1)..(j - 1) :
              Abs(players[i].rating - players[k].rating) > Abs(players[i].rating - players[j].rating)

\* problems.id in ascending order and problems.rating; the ratings differ,
\* so that ORDER BY rating fixes the order of the selected list
ProblemIds == <<"p1", "p2", "p3">>
Problems == {ProblemIds[k] : k \in DOMAIN ProblemIds}
problem_rating(p) == CASE p = "p1" -> 1200 [] p = "p2" -> 1000 [] p = "p3" -> 1100

\* select(Problem).order_by(Problem.rating), then min(problems, key =
\* abs(p.rating - target_rating)): of the problems at the least distance
\* the first of the list, the one of the lowest rating
select_problem_for_match(player1_rating, player2_rating) ==
    LET target_rating == (player1_rating + player2_rating) \div 2
        closest == {p \in catalog : \A q \in catalog :
                       Abs(problem_rating(p) - target_rating) <= Abs(problem_rating(q) - target_rating)}
    IN IF catalog = {} THEN NoProblem
       ELSE CHOOSE p \in closest : \A q \in closest : problem_rating(p) <= problem_rating(q)

\* the NULL of the four rating columns of a match
NoRating == -1

NewMatch(p1, p2, problem) ==
    [player1_id |-> p1, player2_id |-> p2, problem_id |-> problem,
     status |-> "PENDING", player1_accepted |-> FALSE, player2_accepted |-> FALSE,
     winner_id |-> NoUser, end_time |-> FALSE,
     player1_old_rating |-> NoRating, player2_old_rating |-> NoRating,
     player1_new_rating |-> NoRating, player2_new_rating |-> NoRating]

Quiet == /\ sent' = {}
         /\ resp' = NoResp

Emit(notes) == /\ sent' = notes
               /\ notified' = notified \cup {<<n[1], n[3], n[4]>> : n \in notes}

\* the status tests of the request handlers
PendingGuard(status) == status = "PENDING"
\* a guard that also lets a COMPLETED match through
ActiveGuardMut(status) == status \in {"ACTIVE", "COMPLETED"}
ActiveGuard(status) == status = "ACTIVE"
BothAccepted(a1, a2) == a1 /\ a2

\* the status tests of the timer bodies after their sleep
StillPendingMut(status) == status # "CANCELLED"
StillPending(status) == status = "PENDING"
StillActive(status) == status = "ACTIVE"

\* find_match_service: user lookup, has_active_match, then the queue steps
FindMatch(u) ==
    /\ Cardinality(inflight) < MaxInflight
    /\ IF has_active_match(u)
       THEN /\ resp' = <<"find", "conflict">>
            /\ UNCHANGED inflight
       ELSE /\ resp' = NoResp
            /\ inflight' = inflight \cup {Req("find_get", 0, u, FALSE, FALSE, {rating[u]})}
    /\ sent' = {}
    /\ UNCHANGED <<rating, queue, marker, matches, catalog, timers, tick, notified, rated>>
    /\ UNCHANGED aux

\* add_player_to_queue: redis get of the marker
AddGet(r) ==
    /\ r.op = "find_get"
    /\ IF r.u \in marker
       THEN /\ inflight' = inflight \ {r}
            /\ resp' = <<"find", "already_queued">>
       ELSE /\ inflight' = (inflight \ {r}) \cup {Fresh(inflight \ {r}, [r EXCEPT !.op = "find_zadd"])}
            /\ resp' = NoResp
    /\ sent' = {}
    /\ UNCHANGED <<rating, queue, marker, matches, catalog, timers, tick, notified, rated>>
    /\ UNCHANGED aux

\* add_player_to_queue: zadd of the entry, score = now
AddZadd(r) ==
    /\ r.op = "find_zadd"
    /\ Len(queue) < MaxQueue
    /\ queue' = Append(queue, [user_id |-> r.u, rating |-> CHOOSE x \in r.val : TRUE])
    /\ inflight' = (inflight \ {r}) \cup {Fresh(inflight \ {r}, [r EXCEPT !.op = "find_set"])}
    /\ Quiet
    /\ UNCHANGED <<rating, marker, matches, catalog, timers, tick, notified, rated>>
    /\ UNCHANGED aux

\* add_player_to_queue: set of the marker, then the handler returns
AddSet(r) ==
    /\ r.op = "find_set"
    /\ marker' = marker \cup {r.u}
    /\ inflight' = inflight \ {r}
    /\ resp' = <<"find", "queued">>
    /\ sent' = {}
    /\ UNCHANGED <<rating, queue, matches, catalog, timers, tick, notified, rated>>
    /\ UNCHANGED aux

\* cancel_find_match_service / remove_player_from_queue
CancelFindMut(u) ==
    /\ IF u \in marker
       THEN /\ queue' = RemoveUser(queue, u)
            /\ marker' = marker
            /\ resp' = <<"cancel", "removed">>
       ELSE /\ resp' = <<"cancel", "not_present">>
            /\ UNCHANGED <<queue, marker>>
    /\ sent' = {}
    /\ UNCHANGED <<rating, matches, catalog, timers, inflight, tick, notified, rated>>
    /\ UNCHANGED aux
CancelFind(u) ==
    /\ IF u \in marker
       THEN /\ queue' = RemoveUser(queue, u)
            /\ marker' = marker \ {u}
            /\ resp' = <<"cancel", "removed">>
       ELSE /\ resp' = <<"cancel", "not_present">>
            /\ UNCHANGED <<queue, marker>>
    /\ sent' = {}
    /\ UNCHANGED <<rating, matches, catalog, timers, inflight, tick, notified, rated>>
    /\ UNCHANGED aux

\* ----------------------------------------------------------------- tick
\* process_match_queue: zrange and the early return on fewer than 2 entries
TickStart ==
    /\ tick.pc = "idle"
    /\ Len(queue) >= 2
    /\ tick' = [pc |-> "loop", players |-> queue, i |-> 1, m |-> 0, created_matches |-> <<>>]
    /\ Quiet
    /\ UNCHANGED <<rating, queue, marker, matches, catalog, timers, inflight, notified, rated>>
    /\ UNCHANGED aux

\* one pass of the while body up to the creation of the timer tasks
TickCreate ==
    /\ tick.pc = "loop"
    /\ tick.i < Len(tick.players)
    /\ Len(matches) < MaxMatches
    /\ LET p1 == tick.players[tick.i]
           p2 == tick.players[BestMatchIdx(tick.players, tick.i)]
           m == Len(matches) + 1
       IN /\ matches' = Append(matches, NewMatch(p1.user_id, p2.user_id,
                                                select_problem_for_match(p1.rating, p2.rating)))
          /\ Emit({Note(m, p1.user_id, "match_found", ""), Note(m, p2.user_id, "match_found", "")})
          /\ timers' = timers \cup {<<"accept", m>>, <<"draw", m>>}
          /\ rated' = Append(rated, 0)
          /\ tick' = [tick EXCEPT !.pc = "created", !.m = m]
    /\ resp' = NoResp
    /\ UNCHANGED <<rating, queue, marker, catalog, inflight>>
    /\ UNCHANGED aux

\* the rest of the while body: zrem of both entries, delete of both markers,
\* created_matches.append; i is left as it is
TickRemove ==
    /\ tick.pc = "created"
    /\ LET p1 == tick.players[tick.i]
           p2 == tick.players[BestMatchIdx(tick.players, tick.i)]
       IN /\ queue' = RemoveFirst(RemoveFirst(queue, p1), p2)
          /\ marker' = marker \ {p1.user_id, p2.user_id}
    /\ tick' = [tick EXCEPT !.pc = "loop", !.m = 0, !.created_matches = Append(@, tick.m)]
    /\ Quiet
    /\ UNCHANGED <<rating, matches, catalog, timers, inflight, notified, rated>>
    /\ UNCHANGED aux

\* except Exception: i += 1 (an await of the body raised)
TickFail ==
    /\ tick.pc \in {"loop", "created"}
    /\ tick.i < Len(tick.players)
    /\ tick' = [tick EXCEPT !.pc = "loop", !.i = @ + 1, !.m = 0]
    /\ Quiet
    /\ UNCHANGED <<rating, queue, marker, matches, catalog, timers, inflight, notified, rated>>
    /\ UNCHANGED aux

\* while i < len(players) - 1 is false: return created_matches
TickReturn ==
    /\ tick.pc = "loop"
    /\ ~(tick.i < Len(tick.players))
    /\ tick' = Idle
    /\ Quiet
    /\ UNCHANGED <<rating, queue, marker, matches, catalog, timers, inflight, notified, rated>>
    /\ UNCHANGED aux

\* ----------------------------------------------------------- acceptance
\* accept_match up to send_accept_status: the checks, the flag assignment on
\* the session's object and the match_accept_status notification
AcceptRead(m, u) ==
    /\ Cardinality(inflight) < MaxInflight
    /\ LET mt == matches[m]
       IN IF u \notin Participants(m)
          THEN /\ resp' = <<"accept", "forbidden">>
               /\ sent' = {}
               /\ UNCHANGED <<inflight, notified>>
          ELSE IF ~PendingGuard(mt.status)
          THEN /\ resp' = <<"accept", "conflict">>
               /\ sent' = {}
               /\ UNCHANGED <<inflight, notified>>
          ELSE /\ inflight' = inflight \cup
                      {IF mt.player1_id = u
                       THEN Req("accept", m, u, TRUE, mt.player2_accepted, {})
                       ELSE Req("accept", m, u, mt.player1_accepted, TRUE, {})}
               /\ Emit(ToBoth(m, "match_accept_status", ""))
               /\ resp' = NoResp
    /\ UNCHANGED <<rating, queue, marker, matches, catalog, timers, tick, rated>>
    /\ UNCHANGED aux

\* accept_match from "if both players accepted" to the commit
AcceptCommit(r) ==
    /\ r.op = "accept"
    /\ LET mt == matches[r.m]
           flagged == IF mt.player1_id = r.u
                      THEN [mt EXCEPT !.player1_accepted = TRUE]
                      ELSE [mt EXCEPT !.player2_accepted = TRUE]
           both == BothAccepted(r.a1, r.a2)
       IN /\ matches' = [matches EXCEPT ![r.m] =
                            IF both THEN [flagged EXCEPT !.status = "ACTIVE"] ELSE flagged]
          /\ IF both /\ mt.problem_id # NoProblem
             THEN /\ Emit(ToBoth(r.m, "match_started", ""))
                  /\ timers' = timers \cup {<<"draw", r.m>>}
             ELSE /\ sent' = {}
                  /\ UNCHANGED <<notified, timers>>
    /\ inflight' = inflight \ {r}
    /\ resp' = <<"accept", "accepted">>
    /\ UNCHANGED <<rating, queue, marker, catalog, tick, rated>>
    /\ UNCHANGED aux

\* accept_match_service: the checks
AcceptServiceRead(m, u) ==
    /\ Cardinality(inflight) < MaxInflight
    /\ IF ~PendingGuard(matches[m].status)
       THEN /\ resp' = <<"accept_service", "conflict">>
            /\ UNCHANGED inflight
       ELSE IF u \notin Participants(m)
       THEN /\ resp' = <<"accept_service", "forbidden">>
            /\ UNCHANGED inflight
       ELSE /\ inflight' = inflight \cup {Req("accept_service", m, u, FALSE, FALSE, {})}
            /\ resp' = NoResp
    /\ sent' = {}
    /\ UNCHANGED <<rating, queue, marker, matches, catalog, timers, tick, notified, rated>>
    /\ UNCHANGED aux

\* accept_match_service: match.status = ACTIVE, commit, send_accept_status
AcceptServiceCommit(r) ==
    /\ r.op = "accept_service"
    /\ matches' = [matches EXCEPT ![r.m].status = "ACTIVE"]
    /\ Emit(ToBoth(r.m, "accepted", ""))
    /\ inflight' = inflight \ {r}
    /\ resp' = <<"accept_service", "accepted">>
    /\ UNCHANGED <<rating, queue, marker, catalog, timers, tick, rated>>
    /\ UNCHANGED aux

\* decline_match (route): the checks, the match_declined notification
DeclineRead(m, u) ==
    /\ Cardinality(inflight) < MaxInflight
    /\ IF u \notin Participants(m)
       THEN /\ resp' = <<"decline", "forbidden">>
            /\ sent' = {}
            /\ UNCHANGED <<inflight, notified>>
       ELSE IF ~PendingGuard(matches[m].status)
       THEN /\ resp' = <<"decline", "conflict">>
            /\ sent' = {}
            /\ UNCHANGED <<inflight, notified>>
       ELSE /\ inflight' = inflight \cup {Req("decline", m, u, FALSE, FALSE, {})}
            /\ Emit({Note(m, Opponent(m, u), "match_declined", "")})
            /\ resp' = NoResp
    /\ UNCHANGED <<rating, queue, marker, matches, catalog, timers, tick, rated>>
    /\ UNCHANGED aux

\* decline_match (route): status = DECLINED, end_time, commit
DeclineCommit(r) ==
    /\ r.op = "decline"
    /\ matches' = [matches EXCEPT ![r.m].status = "DECLINED", ![r.m].end_time = TRUE]
    /\ inflight' = inflight \ {r}
    /\ resp' = <<"decline", "declined">>
    /\ sent' = {}
    /\ UNCHANGED <<rating, queue, marker, catalog, timers, tick, notified, rated>>
    /\ UNCHANGED aux

\* decline_match_service: the checks
DeclineServiceRead(m, u) ==
    /\ Cardinality(inflight) < MaxInflight
    /\ IF ~PendingGuard(matches[m].status)
       THEN /\ resp' = <<"decline_service", "conflict">>
            /\ UNCHANGED inflight
       ELSE IF u \notin Participants(m)
       THEN /\ resp' = <<"decline_service", "forbidden">>
            /\ UNCHANGED inflight
       ELSE /\ inflight' = inflight \cup {Req("decline_service", m, u, FALSE, FALSE, {})}
            /\ resp' = NoResp
    /\ sent' = {}
    /\ UNCHANGED <<rating, queue, marker, matches, catalog, timers, tick, notified, rated>>
    /\ UNCHANGED aux

\* decline_match_service: status = CANCELLED, end_time, commit, notifications
DeclineServiceCommit(r) ==
    /\ r.op = "decline_service"
    /\ matches' = [matches EXCEPT ![r.m].status = "CANCELLED", ![r.m].end_time = TRUE]
    /\ Emit(ToBoth(r.m, "cancelled", "declined"))
    /\ inflight' = inflight \ {r}
    /\ resp' = <<"decline_service", "declined">>
    /\ UNCHANGED <<rating, queue, marker, catalog, timers, tick, rated>>
    /\ UNCHANGED aux

\* --------------------------------------------------------------- timers
\* match_acceptance_timeout: wake up, re-read the match, test the guard
AcceptanceTimeoutRead(m) ==
    /\ <<"accept", m>> \in timers
    /\ Cardinality(inflight) < MaxInflight
    /\ timers' = timers \ {<<"accept", m>>}
    /\ inflight' = IF StillPending(matches[m].status)
                   THEN inflight \cup {Req("accept_timeout", m, NoUser,
                                          matches[m].player1_accepted, matches[m].player2_accepted, {})}
                   ELSE inflight
    /\ Quiet
    /\ UNCHANGED <<rating, queue, marker, matches, catalog, tick, notified, rated>>
    /\ UNCHANGED aux

\* the reason match_acceptance_timeout gives to user u: the opponent is named
\* when u's own flag is unset, "You did not accept in time" otherwise
TimeoutReason(m, u, a1, a2) ==
    LET own == IF u = matches[m].player1_id THEN a1 ELSE a2
    IN IF ~own THEN "opponent did not accept in time" ELSE "You did not accept in time"

\* match_acceptance_timeout: status = CANCELLED, end_time, commit, notify
AcceptanceTimeoutCommit(r) ==
    /\ r.op = "accept_timeout"
    /\ matches' = [matches EXCEPT ![r.m].status = "CANCELLED", ![r.m].end_time = TRUE]
    /\ Emit({Note(r.m, u, "match_cancelled", TimeoutReason(r.m, u, r.a1, r.a2)) : u \in Participants(r.m)})
    /\ inflight' = inflight \ {r}
    /\ resp' = NoResp
    /\ UNCHANGED <<rating, queue, marker, catalog, timers, tick, rated>>
    /\ UNCHANGED aux

\* match_draw_timeout: wake up, re-read the match, test the guard
DrawTimeoutRead(m) ==
    /\ <<"draw", m>> \in timers
    /\ Cardinality(inflight) < MaxInflight
    /\ timers' = timers \ {<<"draw", m>>}
    /\ inflight' = IF StillActive(matches[m].status)
                   THEN inflight \cup {Req("draw_timeout", m, NoUser, FALSE, FALSE, {})}
                   ELSE inflight
    /\ Quiet
    /\ UNCHANGED <<rating, queue, marker, matches, catalog, tick, notified, rated>>
    /\ UNCHANGED aux

\* match_draw_timeout: status = COMPLETED, end_time, commit, notify
DrawTimeoutCommit(r) ==
    /\ r.op = "draw_timeout"
    /\ matches' = [matches EXCEPT ![r.m].status = "COMPLETED", ![r.m].end_time = TRUE]
    /\ Emit(ToBoth(r.m, "match_draw", ""))
    /\ inflight' = inflight \ {r}
    /\ resp' = NoResp
    /\ UNCHANGED <<rating, queue, marker, catalog, timers, tick, rated>>
    /\ UNCHANGED aux

\* cancel_expired_matches: the select of PENDING matches whose start_time is
\* before the expiry time (S: those the clock makes expired), the assignments
\* and the notifications sent before the commit
SweepRead(S) ==
    /\ Cardinality(inflight) < MaxInflight
    /\ S # {}
    /\ \A m \in S : PendingGuard(matches[m].status)
    /\ inflight' = inflight \cup {Req("sweep", 0, NoUser, FALSE, FALSE, S)}
    /\ Emit(UNION {ToBoth(m, "match_cancelled", "Match expired") : m \in S})
    /\ resp' = NoResp
    /\ UNCHANGED <<rating, queue, marker, matches, catalog, timers, tick, rated>>
    /\ UNCHANGED aux

\* cancel_expired_matches: the commit
SweepCommit(r) ==
    /\ r.op = "sweep"
    /\ matches' = [m \in MatchIds |->
                      IF m \in r.val
                      THEN [matches[m] EXCEPT !.status = "CANCELLED", !.end_time = TRUE]
                      ELSE matches[m]]
    /\ inflight' = inflight \ {r}
    /\ Quiet
    /\ UNCHANGED <<rating, queue, marker, catalog, timers, tick, notified, rated>>
    /\ UNCHANGED aux

\* ----------------------------------------------------------- completion
\* process_submission up to the judge call
SubmitRead(m, u) ==
    /\ Cardinality(inflight) < MaxInflight
    /\ IF u \notin Participants(m)
       THEN /\ resp' = <<"submit", "forbidden">>
            /\ UNCHANGED inflight
       ELSE IF ~ActiveGuard(matches[m].status) \/ matches[m].problem_id = NoProblem
       THEN /\ resp' = <<"submit", "conflict">>
            /\ UNCHANGED inflight
       ELSE /\ inflight' = inflight \cup {Req("submit", m, u, FALSE, FALSE, {})}
            /\ resp' = NoResp
    /\ sent' = {}
    /\ UNCHANGED <<rating, queue, marker, matches, catalog, timers, tick, notified, rated>>
    /\ UNCHANGED aux

\* process_submission after the judge returned is_correct
SubmitVerdict(r, is_correct) ==
    /\ r.op = "submit"
    /\ IF is_correct
       THEN /\ matches' = [matches EXCEPT ![r.m].status = "COMPLETED",
                                          ![r.m].winner_id = r.u,
                                          ![r.m].end_time = TRUE]
            /\ rating' = update_ratings_after_match(rating, r.u, Opponent(r.m, r.u))
            /\ rated' = [rated EXCEPT ![r.m] = @ + 1]
            /\ Emit(ToBoth(r.m, "match_completed", ""))
            /\ resp' = <<"submit", "correct">>
       ELSE /\ Emit({Note(r.m, r.u, "submission_result", "")})
            /\ resp' = <<"submit", "incorrect">>
            /\ UNCHANGED <<matches, rating, rated>>
    /\ inflight' = inflight \ {r}
    /\ UNCHANGED <<queue, marker, catalog, timers, tick>>
    /\ UNCHANGED aux

\* a variant that declares the capitulating player the winner
CapitulateReadMut(m, loser) ==
    /\ Cardinality(inflight) < MaxInflight
    /\ IF ~ActiveGuard(matches[m].status)
       THEN /\ resp' = <<"capitulate", "not_found">>
            /\ UNCHANGED inflight
       ELSE IF loser \notin Participants(m)
       THEN /\ resp' = <<"capitulate", "forbidden">>
            /\ UNCHANGED inflight
       ELSE /\ inflight' = inflight \cup {Req("capitulate", m, loser, FALSE, FALSE, {})}
            /\ resp' = NoResp
    /\ sent' = {}
    /\ UNCHANGED <<rating, queue, marker, matches, catalog, timers, tick, notified, rated>>
    /\ UNCHANGED aux

\* capitulate_match_logic: get_match_by_id and the checks
CapitulateRead(m, loser) ==
    /\ Cardinality(inflight) < MaxInflight
    /\ IF ~ActiveGuard(matches[m].status)
       THEN /\ resp' = <<"capitulate", "not_found">>
            /\ UNCHANGED inflight
       ELSE IF loser \notin Participants(m)
       THEN /\ resp' = <<"capitulate", "forbidden">>
            /\ UNCHANGED inflight
       ELSE /\ inflight' = inflight \cup {Req("capitulate", m, Opponent(m, loser), FALSE, FALSE, {})}
            /\ resp' = NoResp
    /\ sent' = {}
    /\ UNCHANGED <<rating, queue, marker, matches, catalog, timers, tick, notified, rated>>
    /\ UNCHANGED aux

\* a variant without the participant test
CompleteReadMut(m, winner) ==
    /\ Cardinality(inflight) < MaxInflight
    /\ IF ~ActiveGuard(matches[m].status)
       THEN /\ resp' = <<"complete", "conflict">>
            /\ UNCHANGED inflight
       ELSE IF FALSE
       THEN /\ resp' = <<"complete", "forbidden">>
            /\ UNCHANGED inflight
       ELSE /\ inflight' = inflight \cup {Req("complete", m, winner, FALSE, FALSE, {})}
            /\ resp' = NoResp
    /\ sent' = {}
    /\ UNCHANGED <<rating, queue, marker, matches, catalog, timers, tick, notified, rated>>
    /\ UNCHANGED aux

\* complete_match_service: get_match_by_id and the checks
CompleteRead(m, winner) ==
    /\ Cardinality(inflight) < MaxInflight
    /\ IF ~ActiveGuard(matches[m].status)
       THEN /\ resp' = <<"complete", "conflict">>
            /\ UNCHANGED inflight
       ELSE IF winner \notin Participants(m)
       THEN /\ resp' = <<"complete", "forbidden">>
            /\ UNCHANGED inflight
       ELSE /\ inflight' = inflight \cup {Req("complete", m, winner, FALSE, FALSE, {})}
            /\ resp' = NoResp
    /\ sent' = {}
    /\ UNCHANGED <<rating, queue, marker, matches, catalog, timers, tick, notified, rated>>
    /\ UNCHANGED aux

\* finish_match_with_winner: UPDATE matches SET status, winner_id, end_time
\* and its commit (r.u is the winner); the caller goes on to the ratings
finish_match_with_winner(r) ==
    /\ r.op \in {"capitulate", "complete"}
    /\ matches' = [matches EXCEPT ![r.m].status = "COMPLETED",
                                  ![r.m].winner_id = r.u,
                                  ![r.m].end_time = TRUE]
    /\ inflight' = (inflight \ {r}) \cup {Fresh(inflight \ {r}, [r EXCEPT !.op = r.op \o "_rate"])}
    /\ Quiet
    /\ UNCHANGED <<rating, queue, marker, catalog, timers, tick, notified, rated>>
    /\ UNCHANGED aux

\* RatingService.update_ratings_after_match called by capitulate_match_logic
\* and complete_match_service: its own select, UPDATE users and commit
RateCommit(r) ==
    /\ r.op \in {"capitulate_rate", "complete_rate"}
    /\ rating' = update_ratings_after_match(rating, r.u, Opponent(r.m, r.u))
    /\ rated' = [rated EXCEPT ![r.m] = @ + 1]
    /\ IF r.op = "capitulate_rate"
       THEN Emit(ToBoth(r.m, "match_completed", ""))
       ELSE /\ sent' = {}
            /\ UNCHANGED notified
    /\ inflight' = inflight \ {r}
    /\ resp' = <<r.op, "completed">>
    /\ UNCHANGED <<queue, marker, matches, catalog, timers, tick>>
    /\ UNCHANGED aux

\* no sink connected, no fan-out in progress, the clock at the start_time
\* of the first match
InitAux ==
    /\ active_connections = [u \in Users |-> <<>>]
    /\ closed = {}
    /\ fanout = {}
    /\ now = 0

Init ==
    /\ rating = [u \in Users |-> IF u = "u2" THEN HigherRating ELSE DEFAULT_RATING]
    /\ queue = <<>>
    /\ marker = {}
    /\ matches = <<>>
    /\ catalog \in {{}, {"p1"}}
    /\ timers = {}
    /\ inflight = {}
    /\ tick = Idle
    /\ notified = {}
    /\ sent = {}
    /\ resp = NoResp
    /\ rated = <<>>
    /\ InitAux

\* the state in which TickCreate, TickRemove, TickFail and TickReturn leave
\* an empty system in which u1 and u2 had enqueued
InitMatch ==
    /\ rating = [u \in Users |-> IF u = "u2" THEN HigherRating ELSE DEFAULT_RATING]
    /\ queue = <<>>
    /\ marker = {}
    /\ catalog \in {{}, {"p1"}}
    /\ matches = <<NewMatch("u1", "u2", select_problem_for_match(rating["u1"], rating["u2"]))>>
    /\ timers = {<<"accept", 1>>, <<"draw", 1>>}
    /\ inflight = {}
    /\ tick = Idle
    /\ notified = {<<1, "match_found", "">>}
    /\ sent = {}
    /\ resp = NoResp
    /\ rated = <<0>>
    /\ InitAux

\* a timer task created by process_match_queue with the bound methods of
\* MatchService: the callback is called as cb(str(match.id), db) while the
\* method is declared (db, match_id); get_match_by_id raises on the swapped
\* arguments and the method's except clause logs and returns
ServiceTimerTask(kind, m) ==
    /\ <<kind, m>> \in timers
    /\ timers' = timers \ {<<kind, m>>}
    /\ Quiet
    /\ UNCHANGED <<rating, queue, marker, matches, catalog, inflight, tick, notified, rated>>
    /\ UNCHANGED aux

\* the service layer: MatchService, SubmissionService, RatingService
NextService ==
    \/ \E m \in MatchIds, u \in Users : AcceptServiceRead(m, u)
    \/ \E r \in inflight : AcceptServiceCommit(r)
    \/ \E m \in MatchIds, u \in Users : DeclineServiceRead(m, u)
    \/ \E r \in inflight : DeclineServiceCommit(r)
    \/ \E k \in {"accept", "draw"}, m \in MatchIds : ServiceTimerTask(k, m)
    \/ \E S \in SUBSET MatchIds : SweepRead(S)
    \/ \E r \in inflight : SweepCommit(r)
    \/ \E m \in MatchIds, u \in Users : SubmitRead(m, u)
    \/ \E r \in inflight, c \in BOOLEAN : SubmitVerdict(r, c)
    \/ \E m \in MatchIds, u \in Users : CapitulateRead(m, u)
    \/ \E m \in MatchIds, u \in Users : CompleteRead(m, u)
    \/ \E r \in inflight : finish_match_with_winner(r)
    \/ \E r \in inflight : RateCommit(r)

\* the route layer: presentation/routes with the timers it passes to the
\* matchmaker
NextRoute ==
    \/ \E m \in MatchIds, u \in Users : AcceptRead(m, u)
    \/ \E r \in inflight : AcceptCommit(r)
    \/ \E m \in MatchIds, u \in Users : DeclineRead(m, u)
    \/ \E r \in inflight : DeclineCommit(r)
    \/ \E m \in MatchIds : AcceptanceTimeoutRead(m)
    \/ \E r \in inflight : AcceptanceTimeoutCommit(r)
    \/ \E m \in MatchIds : DrawTimeoutRead(m)
    \/ \E r \in inflight : DrawTimeoutCommit(r)
    \/ \E S \in SUBSET MatchIds : SweepRead(S)
    \/ \E r \in inflight : SweepCommit(r)
    \/ \E m \in MatchIds, u \in Users : SubmitRead(m, u)
    \/ \E r \in inflight, c \in BOOLEAN : SubmitVerdict(r, c)

\* the matchmaker alone: enqueue, cancel and the pair formation loop
NextQueue ==
    \/ \E u \in Callers : FindMatch(u)
    \/ \E r \in inflight : AddGet(r)
    \/ \E r \in inflight : AddZadd(r)
    \/ \E r \in inflight : AddSet(r)
    \/ \E u \in Callers : CancelFind(u)
    \/ TickStart
    \/ TickCreate
    \/ TickRemove
    \/ TickFail
    \/ TickReturn

SpecQueue == Init /\ [][NextQueue]_vars

\* the life cycle of a match the matchmaker has just created, in the service
\* layer and in the route layer
Spec == InitMatch /\ [][NextService]_vars

SpecRoute == InitMatch /\ [][NextRoute]_vars

\* ================================================================ claims
LiveMatches(u) ==
    {m \in MatchIds : u \in Participants(m) /\ matches[m].status \in {"PENDING", "ACTIVE"}}

\* C1: at every moment every user takes part in at most one match whose
\* status is PENDING or ACTIVE
C1_AtMostOneLiveMatch == \A u \in Users : Cardinality(LiveMatches(u)) <= 1

\* C2: a correct verdict that arrives for a match another request has
\* already completed is answered with a conflict and changes neither the
\* winner nor any rating, so that two concurrent correct submissions give
\* one winner and one rating update
C2_SecondCorrectVerdictConflicts ==
    [][\A r \in inflight :
          (r.op = "submit" /\ matches[r.m].status = "COMPLETED" /\ SubmitVerdict(r, TRUE))
              => /\ resp' = <<"submit", "conflict">>
                 /\ matches' = matches
                 /\ rating' = rating
                 /\ rated' = rated]_vars

\* C3: the status of a match changes only along PENDING -> ACTIVE,
\* PENDING -> CANCELLED and ACTIVE -> COMPLETED; a COMPLETED, CANCELLED or
\* DECLINED match keeps its status
C3_StatusNeverRegresses ==
    [][\A m \in MatchIds :
          matches'[m].status # matches[m].status
              => <<matches[m].status, matches'[m].status>> \in
                     {<<"PENDING", "ACTIVE">>, <<"PENDING", "CANCELLED">>, <<"ACTIVE", "COMPLETED">>}]_vars

\* C4: a step that takes a match from PENDING to ACTIVE leaves both
\* acceptance flags true; an accept made while the other flag is unset
\* leaves the match PENDING
C4_ActiveOnlyWhenBothAccepted ==
    [][\A m \in MatchIds :
          (matches[m].status = "PENDING" /\ matches'[m].status = "ACTIVE")
              => (matches'[m].player1_accepted /\ matches'[m].player2_accepted)]_vars

\* C5: end_time is set exactly when the status is COMPLETED, DECLINED or
\* CANCELLED
C5_EndTimeIffTerminal ==
    \A m \in MatchIds : matches[m].end_time <=> (matches[m].status \in Terminal)

\* C6: a step that changes any user's rating is a step in which some match
\* moves to COMPLETED
C6_RatingChangesOnlyAtCompletion ==
    [][rating' # rating
          => \E m \in MatchIds : /\ matches[m].status # "COMPLETED"
                                 /\ matches'[m].status = "COMPLETED"]_vars

\* C7: in every state a match is COMPLETED exactly when the rating update
\* that belongs to its completion has been committed
C7_CompletionAtomicWithRatings ==
    \A m \in MatchIds : (matches[m].status = "COMPLETED") <=> (rated[m] >= 1)

\* C8: the draw timer's write on a match that is still ACTIVE leaves it
\* COMPLETED without a winner, with end_time set, and both ratings updated
\* with the actual score 0.5
C8_DrawUpdatesRatings ==
    [][\A r \in inflight :
          (r.op = "draw_timeout" /\ matches[r.m].status = "ACTIVE" /\ DrawTimeoutCommit(r))
              => /\ matches'[r.m].status = "COMPLETED"
                 /\ matches'[r.m].winner_id = NoUser
                 /\ matches'[r.m].end_time
                 /\ rating' = update_ratings_for_draw(rating, matches[r.m].player1_id,
                                                      matches[r.m].player2_id)]_vars

\* C9: the acceptance timer waking on a match that is not PENDING, and the
\* draw timer waking on a match that is not ACTIVE, return at once: no match
\* row, no rating and no pending write changes and nothing is sent
C9_TimerOnOtherStatusIsNoOp ==
    [][\A m \in MatchIds :
          (\/ AcceptanceTimeoutRead(m) /\ matches[m].status # "PENDING"
           \/ DrawTimeoutRead(m) /\ matches[m].status # "ACTIVE")
              => /\ matches' = matches
                 /\ rating' = rating
                 /\ inflight' = inflight
                 /\ notified' = notified
                 /\ sent' = {}]_vars

TimeoutReasons == {"opponent did not accept in time", "You did not accept in time"}

\* both timers of match 1 have woken on a status they do not act on: neither
\* has a write pending and neither has sent its notification
C9_Witness ==
    /\ <<"accept", 1>> \notin timers
    /\ <<"draw", 1>> \notin timers
    /\ matches[1].status = "ACTIVE"
    /\ \A r \in inflight : r.op \notin {"accept_timeout", "draw_timeout"}
    /\ \A x \in notified : x[2] # "match_draw" /\ x[3] \notin TimeoutReasons

\* C10: the players of a match never receive both match_started and the
\* acceptance timeout's match_cancelled
C10_NeverStartedAndTimedOut ==
    \A m \in MatchIds :
        ~ /\ <<m, "match_started", "">> \in notified
          /\ \E x \in notified : x[1] = m /\ x[2] = "match_cancelled" /\ x[3] \in TimeoutReasons

\* ------------------------------------------------------------- liveness
\* what the event loop guarantees in the service layer: a timer task that
\* was created runs, and a handler suspended at an await is resumed; no
\* client is obliged to send a request
ServiceResume ==
    \E r \in inflight : \/ AcceptServiceCommit(r)
                        \/ DeclineServiceCommit(r)
                        \/ SweepCommit(r)
                        \/ \E c \in BOOLEAN : SubmitVerdict(r, c)
                        \/ finish_match_with_winner(r)
                        \/ RateCommit(r)

ServiceTimers == \E k \in {"accept", "draw"}, m \in 1..MaxMatches : ServiceTimerTask(k, m)

SpecLive == InitMatch /\ [][NextService]_vars /\ WF_vars(ServiceTimers) /\ WF_vars(ServiceResume)

\* C11: with the timers scheduled fairly every match that exists eventually
\* has a terminal status: a PENDING match is activated or cancelled and an
\* ACTIVE match without a correct submission is completed as a draw
C11_EveryMatchEnds ==
    \A m \in 1..MaxMatches :
        [](m \in MatchIds => <>(m \in MatchIds /\ matches[m].status \in Terminal))

\* ---------------------------------------------------------------- queue
Entries(u) == {k \in 1..Len(queue) : queue[k].user_id = u}
InQueue(u) == Entries(u) # {}

\* C12: the sorted set never holds two entries of one user
C12_OneEntryPerUser == \A u \in Users : Cardinality(Entries(u)) <= 1

\* no enqueue of u is suspended and the pair formation loop is not running
QuietFor(u) == tick.pc = "idle" /\ \A r \in inflight : r.u # u

\* C13: when no operation is in progress for u and a further tick finds
\* nothing to pair, the marker of u exists exactly when u has an entry
C13_MarkerIffEntry ==
    \A u \in Users : (QuietFor(u) /\ Len(queue) < 2) => (u \in marker <=> InQueue(u))

\* ----------------------------------------------------------- completion
\* the ways a match with a winner is completed: a verdict, a capitulation,
\* complete_match_service
NextComplete ==
    \/ \E m \in MatchIds, u \in Users : SubmitRead(m, u)
    \/ \E r \in inflight, c \in BOOLEAN : SubmitVerdict(r, c)
    \/ \E m \in MatchIds, u \in Users : CapitulateRead(m, u)
    \/ \E m \in MatchIds, u \in Users : CompleteRead(m, u)
    \/ \E r \in inflight : finish_match_with_winner(r)
    \/ \E r \in inflight : RateCommit(r)

\* the state in which accept_match_service leaves the match of InitMatch
\* when the catalog holds a problem and both timer tasks have ended
InitActive ==
    /\ rating = [u \in Users |-> IF u = "u2" THEN HigherRating ELSE DEFAULT_RATING]
    /\ queue = <<>>
    /\ marker = {}
    /\ catalog = {"p1"}
    /\ matches = <<[NewMatch("u1", "u2", "p1") EXCEPT !.status = "ACTIVE"]>>
    /\ timers = {}
    /\ inflight = {}
    /\ tick = Idle
    /\ notified = {<<1, "match_found", "">>, <<1, "accepted", "">>}
    /\ sent = {}
    /\ resp = NoResp
    /\ rated = <<0>>
    /\ InitAux

SpecComplete == InitActive /\ [][NextComplete]_vars

\* C14: no user with an entry in the queue takes part in a PENDING or ACTIVE
\* match
C14_QueuedUserHasNoLiveMatch == \A u \in Users : InQueue(u) => LiveMatches(u) = {}

\* enqueue and cancel requests arriving while u1 and u2 have their match,
\* PENDING or ACTIVE, and no pair formation runs
NextEnqueue ==
    \/ \E u \in Users : FindMatch(u)
    \/ \E r \in inflight : AddGet(r)
    \/ \E r \in inflight : AddZadd(r)
    \/ \E r \in inflight : AddSet(r)
    \/ \E u \in Users : CancelFind(u)

SpecEnqueue == (InitMatch \/ InitActive) /\ [][NextEnqueue]_vars

\* C15: an enqueue request of a user who has a PENDING or ACTIVE match, and
\* one that finds the user's marker, is rejected and ends there: the sorted
\* set, the markers and the matches stay as they are
C15_RejectedEnqueueChangesNothing ==
    [][/\ \A u \in Users :
             (FindMatch(u) /\ LiveMatches(u) # {})
                 => /\ resp' = <<"find", "conflict">>
                    /\ inflight' = inflight
                    /\ queue' = queue /\ marker' = marker /\ matches' = matches
       /\ \A r \in inflight :
             (r.op = "find_get" /\ r.u \in marker /\ AddGet(r))
                 => /\ resp' = <<"find", "already_queued">>
                    /\ inflight' = inflight \ {r}
                    /\ queue' = queue /\ marker' = marker /\ matches' = matches]_vars

\* a user with a live match has just been refused while another user is
\* queued
C15_Witness ==
    /\ resp = <<"find", "conflict">>
    /\ \E u \in Users : InQueue(u) /\ u \in marker
    /\ \E u \in Users : LiveMatches(u) # {}

\* C16: a cancel of a user whose single enqueue has returned leaves neither
\* an entry nor the marker of that user, and an enqueue of a user without
\* marker, entry and live match is let through to the zadd
C16_CancelUndoesEnqueue ==
    [][/\ \A u \in Users :
             (CancelFind(u) /\ u \in marker /\ Cardinality(Entries(u)) = 1 /\ QuietFor(u))
                 => /\ resp' = <<"cancel", "removed">>
                    /\ u \notin marker'
                    /\ \A k \in 1..Len(queue') : queue'[k].user_id # u
       /\ \A u \in Users :
             (FindMatch(u) /\ u \notin marker /\ ~InQueue(u) /\ LiveMatches(u) = {})
                 => /\ resp' = NoResp
                    /\ \E r \in inflight' \ inflight : r.op = "find_get" /\ r.u = u
       /\ \A r \in inflight :
             (r.op = "find_get" /\ r.u \notin marker /\ AddGet(r))
                 => /\ resp' = NoResp
                    /\ \E r2 \in inflight' \ inflight : r2.op = "find_zadd" /\ r2.u = r.u]_vars

\* a cancel has just removed the only queued user: nothing of the enqueue
\* is left
C16_Witness ==
    /\ resp = <<"cancel", "removed">>
    /\ queue = <<>>
    /\ marker = {}
    /\ inflight = {}

\* ----------------------------------------------------------- acceptance
OwnFlag(m, u) ==
    IF matches[m].player1_id = u THEN matches[m].player1_accepted ELSE matches[m].player2_accepted

\* C17: an accept of a participant whose flag is already set, on a match
\* that is still PENDING, changes no match and sends no notification
C17_SecondAcceptIsSilent ==
    [][/\ \A m \in MatchIds, u \in Users :
             (u \in Participants(m) /\ matches[m].status = "PENDING" /\ OwnFlag(m, u)
              /\ AcceptRead(m, u))
                 => /\ sent' = {}
                    /\ notified' = notified
                    /\ matches' = matches
       /\ \A r \in inflight :
             (r.op = "accept" /\ matches[r.m].status = "PENDING" /\ OwnFlag(r.m, r.u)
              /\ AcceptCommit(r))
                 => /\ sent' = {}
                    /\ matches' = matches]_vars

AcceptsInFlight(m) == {r \in inflight : r.op = "accept" /\ r.m = m}

\* C18: once both participants' accepts of a match have been processed,
\* however they interleaved, both flags are set, the match has left PENDING
\* through ACTIVE and match_started has been sent for it
C18_ConcurrentAcceptsStartMatch ==
    \A m \in MatchIds :
        (/\ matches[m].player1_accepted
         /\ matches[m].player2_accepted
         /\ AcceptsInFlight(m) = {}
         /\ matches[m].problem_id # NoProblem)
            => /\ matches[m].status # "PENDING"
               /\ <<m, "match_started", "">> \in notified

\* C19: a submission or a completion request that arrives for a match
\* already COMPLETED is refused and changes neither the match (winner_id,
\* end_time) nor any rating, and starts no further work
C19_CompletedMatchKeepsWinner ==
    [][\A m \in MatchIds : \A u \in Participants(m) :
          /\ (matches[m].status = "COMPLETED" /\ SubmitRead(m, u))
                => /\ resp' = <<"submit", "conflict">>
                   /\ matches' = matches
                   /\ rating' = rating
                   /\ rated' = rated
                   /\ inflight' = inflight
          /\ (matches[m].status = "COMPLETED" /\ CompleteRead(m, u))
                => /\ resp' = <<"complete", "conflict">>
                   /\ matches' = matches
                   /\ rating' = rating
                   /\ rated' = rated
                   /\ inflight' = inflight]_vars

C19_Witness ==
    /\ matches[1].status = "COMPLETED"
    /\ matches[1].winner_id = "u1"
    /\ rated[1] = 1
    /\ inflight = {}
    /\ resp = <<"submit", "conflict">>

\* ------------------------------------------------------------------ Elo
\* the pre-match ratings ranged over: RatingSteps + 1 values 200 apart
\* around DEFAULT_RATING, so that 10^((o - r)/400) has a rational square
RatingSet == {DEFAULT_RATING + 200 * (k - 2) : k \in 0..RatingSteps}

InitElo ==
    /\ rating \in {f \in [Users -> RatingSet] : f["u3"] = DEFAULT_RATING}
    /\ queue = <<>>
    /\ marker = {}
    /\ catalog = {"p1"}
    /\ matches = <<[NewMatch("u1", "u2", "p1") EXCEPT !.status = "ACTIVE"]>>
    /\ timers = {}
    /\ inflight = {}
    /\ tick = Idle
    /\ notified = {<<1, "match_found", "">>, <<1, "accepted", "">>}
    /\ sent = {}
    /\ resp = NoResp
    /\ rated = <<0>>
    /\ InitAux

SpecElo == InitElo /\ [][NextComplete]_vars

RECURSIVE Pow10(_)
Pow10(n) == IF n = 0 THEN 1 ELSE 10 * Pow10(n - 1)

\* Q <= a/b and Q >= a/b for Q = 10^(j/2) and integers a, b > 0, decided
\* on the squares
QLeq(j, a, b) ==
    IF j >= 0 THEN Pow10(j) <= a * a /\ Pow10(j) * b * b <= a * a
    ELSE Pow10(-j) >= b * b \/ b * b <= a * a * Pow10(-j)

QGeq(j, a, b) ==
    IF j >= 0 THEN Pow10(j) >= a * a \/ Pow10(j) * b * b >= a * a
    ELSE Pow10(-j) <= b * b /\ b * b >= a * a * Pow10(-j)

\* new = round(r + 32 * (S - E(r, o))) with E(r, o) = 1/(1 + 10^((o - r)/400)),
\* S = S2/2 and o - r a multiple of 200: with Q = 10^((o - r)/400) and
\* t = 16 * S2 - (new - r) this is |32/(1 + Q) - t| <= 1/2, that is
\* (2t - 1)(1 + Q) <= 64 <= (2t + 1)(1 + Q)
IsElo(new, r, o, S2) ==
    LET j == (o - r) \div 200
        t == 16 * S2 - (new - r)
    IN /\ t \in 0..32
       /\ t = 0 \/ QLeq(j, 65 - 2 * t, 2 * t - 1)
       /\ t = 32 \/ QGeq(j, 63 - 2 * t, 2 * t + 1)

\* a step that completes match r.m with winner r.u and writes the ratings
RatesWinner(r) == SubmitVerdict(r, TRUE) \/ RateCommit(r)

\* the general part of C20: from pre-match ratings in RatingSet, the winner
\* gets round(r_w + 32 * (1 - E(r_w, r_l))) and the loser
\* round(r_l + 32 * (0 - E(r_l, r_w)))
EloStep ==
    \A r \in inflight :
        LET w == r.u
            l == Opponent(r.m, r.u)
        IN (RatesWinner(r) /\ rating[w] \in RatingSet /\ rating[l] \in RatingSet)
              => /\ IsElo(rating'[w], rating[w], rating[l], 2)
                 /\ IsElo(rating'[l], rating[l], rating[w], 0)

\* the instance of C20: what 1000 beating 1200 yields
EloInstance(nw, nl) ==
    \A r \in inflight :
        LET w == r.u
            l == Opponent(r.m, r.u)
        IN (RatesWinner(r) /\ rating[w] = 1000 /\ rating[l] = 1200)
              => /\ rating'[w] = nw
                 /\ rating'[l] = nl

\* C20 as stated: completion with a winner follows the Elo formula with
\* K = 32, and 1000 beating 1200 yields 1024 and 1192
C20_EloAsStated == [][EloStep /\ EloInstance(1024, 1192)]_vars

\* C20: completion with a winner follows the Elo formula with K = 32, and
\* 1000 beating 1200 yields 1024 and 1176
C20_EloWithWinner == [][EloStep /\ EloInstance(1024, 1176)]_vars

C20_Witness ==
    /\ matches[1].status = "COMPLETED"
    /\ matches[1].winner_id = "u1"
    /\ rated[1] = 1
    /\ rating["u1"] = 1024
    /\ rating["u2"] = 1176

\* ---------------------------------------------------------- notifications
\* C21: a lifecycle notification goes out only once the change it reports
\* is in the committed row: match_declined on a DECLINED match,
\* match_cancelled on a CANCELLED one, match_started on an ACTIVE one and
\* match_accept_status on a match with a committed acceptance
C21_NotifiedAfterCommit ==
    \A n \in sent :
        LET mt == matches[n[1]]
        IN /\ n[3] = "match_declined" => mt.status = "DECLINED"
           /\ n[3] = "match_cancelled" => mt.status = "CANCELLED"
           /\ n[3] = "match_started" => mt.status = "ACTIVE"
           /\ n[3] = "match_accept_status" => (mt.player1_accepted \/ mt.player2_accepted)

\* --------------------------------------------------- connection manager
\* WebSocketManager of presentation/websocket.py.  send_match_notification
\* iterates over the user's list with an index; every send_json is an await
\* at which connect, disconnect and other fan-outs may run.
Sinks == {"s1", "s2", "s3"}
Listeners == {"u1"}

Range(s) == {s[k] : k \in DOMAIN s}

\* list.remove(websocket): the first occurrence
RECURSIVE ListRemove(_, _)
ListRemove(l, x) ==
    IF l = <<>> THEN <<>>
    ELSE IF Head(l) = x THEN Tail(l)
    ELSE <<Head(l)>> \o ListRemove(Tail(l), x)

\* WebSocketManager.disconnect applied to the lists conns
disconnect(conns, websocket, user_id) ==
    IF websocket \in Range(conns[user_id])
    THEN [conns EXCEPT ![user_id] = ListRemove(@, websocket)]
    ELSE conns

RECURSIVE DisconnectAll(_, _, _)
DisconnectAll(conns, ws, user_id) ==
    IF ws = <<>> THEN conns
    ELSE DisconnectAll(disconnect(conns, Head(ws), user_id), Tail(ws), user_id)

\* a fan-out whose list object was dropped from active_connections (the last
\* sink left) goes on iterating the dropped, empty list
Detach(F, conns, user_id) ==
    IF conns[user_id] = <<>>
    THEN {IF f.u = user_id THEN [f EXCEPT !.detached = TRUE] ELSE f : f \in F}
    ELSE F

\* WebSocketManager.connect
Connect(s, u) ==
    /\ s \notin closed
    /\ \A v \in Users : s \notin Range(active_connections[v])
    /\ active_connections' = [active_connections EXCEPT ![u] = Append(@, s)]
    /\ UNCHANGED <<closed, fanout, now>>
    /\ UNCHANGED <<rating, queue, marker, matches, catalog, timers, inflight, tick, notified, sent, resp, rated>>

\* the peer of a connected sink goes away: send_json to it raises from now on
Close(s) ==
    /\ s \notin closed
    /\ \E u \in Users : s \in Range(active_connections[u])
    /\ closed' = closed \cup {s}
    /\ UNCHANGED <<active_connections, fanout, now>>
    /\ UNCHANGED <<rating, queue, marker, matches, catalog, timers, inflight, tick, notified, sent, resp, rated>>

\* websocket_endpoint on WebSocketDisconnect: manager.disconnect
Disconnect(s, u) ==
    /\ s \in closed
    /\ s \in Range(active_connections[u])
    /\ active_connections' = disconnect(active_connections, s, u)
    /\ fanout' = Detach(fanout, active_connections', u)
    /\ UNCHANGED <<closed, now>>
    /\ UNCHANGED <<rating, queue, marker, matches, catalog, timers, inflight, tick, notified, sent, resp, rated>>

\* send_match_notification up to the first await: the first send_json
SendStart(u) ==
    /\ Cardinality(fanout) < MaxFanout
    /\ active_connections[u] # <<>>
    /\ fanout' = fanout \cup
          {Fresh(fanout, [id |-> 1, u |-> u, idx |-> 1, cur |-> active_connections[u][1],
                          disconnected_websockets |-> <<>>, got |-> {},
                          start |-> Range(active_connections[u]), detached |-> FALSE])}
    /\ UNCHANGED <<active_connections, closed, now>>
    /\ UNCHANGED <<rating, queue, marker, matches, catalog, timers, inflight, tick, notified, sent, resp, rated>>

\* what the fan-out holds once the pending send_json has returned or raised
Got(f) == IF f.cur \in closed THEN f.got ELSE f.got \cup {f.cur}
Failed(f) ==
    IF f.cur \in closed THEN Append(f.disconnected_websockets, f.cur)
    ELSE f.disconnected_websockets

\* the for loop has a next element
HasNext(f) == ~f.detached /\ f.idx < Len(active_connections[f.u])

\* the pending send_json returns or raises and the loop goes to the next sink
SendNext(f) ==
    /\ HasNext(f)
    /\ fanout' = (fanout \ {f}) \cup
          {Fresh(fanout \ {f}, [f EXCEPT !.idx = f.idx + 1,
                                         !.cur = active_connections[f.u][f.idx + 1],
                                         !.got = Got(f),
                                         !.disconnected_websockets = Failed(f)])}
    /\ UNCHANGED <<active_connections, closed, now>>
    /\ UNCHANGED <<rating, queue, marker, matches, catalog, timers, inflight, tick, notified, sent, resp, rated>>

\* the pending send_json returns or raises, the loop is over: the clean-up
\* loop disconnects the sinks that failed and the call returns
SendReturn(f) ==
    /\ ~HasNext(f)
    /\ active_connections' = DisconnectAll(active_connections, Failed(f), f.u)
    /\ fanout' = Detach(fanout \ {f}, active_connections', f.u)
    /\ UNCHANGED <<closed, now>>
    /\ UNCHANGED <<rating, queue, marker, matches, catalog, timers, inflight, tick, notified, sent, resp, rated>>

NextSinks ==
    \/ \E s \in Sinks, u \in Listeners : Connect(s, u)
    \/ \E s \in Sinks : Close(s)
    \/ \E s \in Sinks, u \in Listeners : Disconnect(s, u)
    \/ \E u \in Listeners : SendStart(u)
    \/ \E f \in fanout : SendNext(f)
    \/ \E f \in fanout : SendReturn(f)

SpecSinks == Init /\ [][NextSinks]_vars

\* C22: when a fan-out in which a send failed returns, the sinks that failed
\* are no longer in the user's list, and every sink that was in the list when
\* the fan-out began, is still connected and can be sent to got the message
C22_FailedSinkRemovedOthersServed ==
    [][\A f \in fanout :
          (SendReturn(f) /\ Failed(f) # <<>>)
             => /\ \A s \in Range(Failed(f)) : s \notin Range(active_connections'[f.u])
                /\ \A s \in f.start :
                      (s \notin closed /\ s \in Range(active_connections'[f.u])) => s \in Got(f)]_vars

\* C23: every match has two different players
C23_PlayersDiffer == \A m \in MatchIds : matches[m].player1_id # matches[m].player2_id

\* ------------------------------------------------------------- winner
\* an ACTIVE match whose draw timer is asleep
InitTimed ==
    /\ rating = [u \in Users |-> IF u = "u2" THEN HigherRating ELSE DEFAULT_RATING]
    /\ queue = <<>>
    /\ marker = {}
    /\ catalog = {"p1"}
    /\ matches = <<[NewMatch("u1", "u2", "p1") EXCEPT !.status = "ACTIVE"]>>
    /\ timers = {<<"draw", 1>>}
    /\ inflight = {}
    /\ tick = Idle
    /\ notified = {<<1, "match_found", "">>, <<1, "match_started", "">>}
    /\ sent = {}
    /\ resp = NoResp
    /\ rated = <<0>>
    /\ InitAux

\* verdicts, capitulation, completion and the draw timer of the match
NextWinner ==
    \/ \E m \in MatchIds, u \in Users : SubmitRead(m, u)
    \/ \E r \in inflight, c \in BOOLEAN : SubmitVerdict(r, c)
    \/ \E m \in MatchIds, u \in Users : CapitulateRead(m, u)
    \/ \E m \in MatchIds, u \in Users : CompleteRead(m, u)
    \/ \E r \in inflight : finish_match_with_winner(r)
    \/ \E r \in inflight : RateCommit(r)
    \/ \E m \in MatchIds : DrawTimeoutRead(m)
    \/ \E r \in inflight : DrawTimeoutCommit(r)

SpecWinner == InitTimed /\ [][NextWinner]_vars

\* C24: a winner_id that is set is one of the two players of its match
C24_WinnerIsParticipant ==
    \A m \in MatchIds : matches[m].winner_id # NoUser => matches[m].winner_id \in Participants(m)

C24_Witness ==
    /\ matches[1].status = "COMPLETED"
    /\ matches[1].winner_id = "u2"
    /\ rated[1] = 1
    /\ inflight = {}
    /\ timers = {}

\* ------------------------------------------- the routes of src/match
\* accept_match of match/route.py and check_match_timeouts of
\* match/service.py, which test_routes.py exercises.  The matches of this
\* part were created at time 0.
start_time(m) == 0

Advance ==
    /\ now < MaxNow
    /\ now' = now + 1
    /\ Quiet
    /\ UNCHANGED <<active_connections, closed, fanout>>
    /\ UNCHANGED <<rating, queue, marker, matches, catalog, timers, inflight, tick, notified, rated>>

\* accept_match (match/route.py) up to its first flush: the participant
\* test, the timeout test against start_time + 60 seconds, the assignments
\* on the session's object
LegacyAcceptRead(m, u) ==
    /\ Cardinality(inflight) < MaxInflight
    /\ LET mt == matches[m]
       IN IF u \notin Participants(m)
          THEN /\ resp' = <<"legacy_accept", "forbidden">>
               /\ UNCHANGED inflight
          ELSE IF now > start_time(m) + AcceptDeadline
          THEN /\ inflight' = inflight \cup {Req("legacy_timed_out", m, u, FALSE, FALSE, {})}
               /\ resp' = NoResp
          ELSE /\ inflight' = inflight \cup
                      {IF mt.player1_id = u
                       THEN Req("legacy_accept", m, u, TRUE, mt.player2_accepted, {})
                       ELSE Req("legacy_accept", m, u, mt.player1_accepted, TRUE, {})}
               /\ resp' = NoResp
    /\ sent' = {}
    /\ UNCHANGED <<rating, queue, marker, matches, catalog, timers, tick, notified, rated>>
    /\ UNCHANGED aux

\* accept_match (match/route.py): flush, commit, refresh, then either the
\* 400 of the timed-out branch or the notification of the other player
LegacyAcceptCommit(r) ==
    /\ r.op \in {"legacy_accept", "legacy_timed_out"}
    /\ LET mt == matches[r.m]
           flagged == IF mt.player1_id = r.u
                      THEN [mt EXCEPT !.player1_accepted = TRUE]
                      ELSE [mt EXCEPT !.player2_accepted = TRUE]
       IN IF r.op = "legacy_timed_out"
          THEN /\ matches' = [matches EXCEPT ![r.m].status = "DECLINED", ![r.m].end_time = TRUE]
               /\ resp' = <<"legacy_accept", "timed_out">>
               /\ sent' = {}
               /\ UNCHANGED notified
          ELSE /\ matches' = [matches EXCEPT ![r.m] =
                                 IF BothAccepted(r.a1, r.a2)
                                 THEN [flagged EXCEPT !.status = "ACTIVE"] ELSE flagged]
               /\ resp' = <<"legacy_accept", "accepted">>
               /\ Emit({Note(r.m, Opponent(r.m, r.u), "match_status", "")})
    /\ inflight' = inflight \ {r}
    /\ UNCHANGED <<rating, queue, marker, catalog, timers, tick, rated>>
    /\ UNCHANGED aux

\* check_match_timeouts: the select of the PENDING matches older than
\* MATCH_ACCEPTANCE_TIMEOUT
check_match_timeouts ==
    /\ Cardinality(inflight) < MaxInflight
    /\ LET timed_out == {m \in MatchIds : /\ matches[m].status = "PENDING"
                                          /\ start_time(m) < now - MATCH_ACCEPTANCE_TIMEOUT}
       IN /\ timed_out # {}
          /\ inflight' = inflight \cup {Req("legacy_sweep", 0, NoUser, FALSE, FALSE, timed_out)}
    /\ Quiet
    /\ UNCHANGED <<rating, queue, marker, matches, catalog, timers, tick, notified, rated>>
    /\ UNCHANGED aux

\* check_match_timeouts: status = DECLINED and end_time on the selected
\* matches, commit
LegacyTimeoutsCommit(r) ==
    /\ r.op = "legacy_sweep"
    /\ matches' = [m \in MatchIds |->
                      IF m \in r.val
                      THEN [matches[m] EXCEPT !.status = "DECLINED", !.end_time = TRUE]
                      ELSE matches[m]]
    /\ inflight' = inflight \ {r}
    /\ Quiet
    /\ UNCHANGED <<rating, queue, marker, catalog, timers, tick, notified, rated>>
    /\ UNCHANGED aux

\* submit_solution (match/route.py) up to the is_correct test: the
\* participant test and the status test; an incorrect solution is answered
\* with a message and nothing else
LegacySubmitRead(m, u, is_correct) ==
    /\ Cardinality(inflight) < MaxInflight
    /\ rated[m] < MaxRated
    /\ IF u \notin Participants(m)
       THEN /\ resp' = <<"legacy_submit", "forbidden">>
            /\ UNCHANGED inflight
       ELSE IF ~ActiveGuard(matches[m].status)
       THEN /\ resp' = <<"legacy_submit", "conflict">>
            /\ UNCHANGED inflight
       ELSE IF ~is_correct
       THEN /\ resp' = <<"legacy_submit", "incorrect">>
            /\ UNCHANGED inflight
       ELSE /\ inflight' = inflight \cup {Req("legacy_submit", m, u, FALSE, FALSE, {})}
            /\ resp' = NoResp
    /\ sent' = {}
    /\ UNCHANGED <<rating, queue, marker, matches, catalog, timers, tick, notified, rated>>
    /\ UNCHANGED aux

\* submit_solution (match/route.py), correct solution: the assignments to
\* the match, update_ratings_after_match of match/rating.py and its commit,
\* the two match_completed messages
LegacySubmitCommit(r) ==
    /\ r.op = "legacy_submit"
    /\ matches' = [matches EXCEPT ![r.m].status = "COMPLETED",
                                  ![r.m].winner_id = r.u,
                                  ![r.m].end_time = TRUE]
    /\ rating' = update_ratings_after_match(rating, r.u, Opponent(r.m, r.u))
    /\ rated' = [rated EXCEPT ![r.m] = @ + 1]
    /\ Emit(ToBoth(r.m, "match_completed", ""))
    /\ resp' = <<"legacy_submit", "correct">>
    /\ inflight' = inflight \ {r}
    /\ UNCHANGED <<queue, marker, catalog, timers, tick>>
    /\ UNCHANGED aux

NextLegacy ==
    \/ Advance
    \/ \E m \in MatchIds, u \in Users : LegacyAcceptRead(m, u)
    \/ \E r \in inflight : LegacyAcceptCommit(r)
    \/ check_match_timeouts
    \/ \E r \in inflight : LegacyTimeoutsCommit(r)
    \/ \E m \in MatchIds, u \in Users, c \in BOOLEAN : LegacySubmitRead(m, u, c)
    \/ \E r \in inflight : LegacySubmitCommit(r)

SpecLegacy == InitMatch /\ [][NextLegacy]_vars

\* C25: an accept issued by player1 is answered 403 and changes neither the
\* status nor the acceptance flags of the match
C25_Player1MayNotAccept ==
    [][/\ \A m \in MatchIds :
             LegacyAcceptRead(m, matches[m].player1_id)
                 => /\ resp' = <<"legacy_accept", "forbidden">>
                    /\ inflight' = inflight
       /\ \A r \in inflight :
             (r.u = matches[r.m].player1_id /\ LegacyAcceptCommit(r))
                 => matches' = matches]_vars

\* C26: an accept that arrives on a PENDING match more than
\* MATCH_ACCEPTANCE_TIMEOUT seconds after start_time takes the timed-out
\* branch, whose commit leaves the match DECLINED with end_time set and
\* answers 400 'timed out'
C26_LateAcceptDeclines ==
    [][/\ \A m \in MatchIds : \A u \in Participants(m) :
             (/\ matches[m].status = "PENDING"
              /\ now > start_time(m) + MATCH_ACCEPTANCE_TIMEOUT
              /\ LegacyAcceptRead(m, u))
                 => \E r \in inflight' \ inflight : r.op = "legacy_timed_out" /\ r.m = m
       /\ \A r \in inflight :
             (r.op = "legacy_timed_out" /\ LegacyAcceptCommit(r))
                 => /\ matches'[r.m].status = "DECLINED"
                    /\ matches'[r.m].end_time
                    /\ resp' = <<"legacy_accept", "timed_out">>]_vars

\* ------------------------------------------------------ pair formation
\* the queues a tick can find: up to MaxSnapshot entries of different
\* users in enqueue order, each with its marker and the rating its user
\* had on enqueueing
InitTick ==
    /\ rating \in [Users -> {DEFAULT_RATING, HigherRating}]
    /\ \E n \in 2..MaxSnapshot :
          queue \in {q \in [1..n -> [user_id : Users, rating : {DEFAULT_RATING, HigherRating}]] :
                        /\ \A a, b \in 1..n : a # b => q[a].user_id # q[b].user_id
                        /\ \A a \in 1..n : q[a].rating = rating[q[a].user_id]}
    /\ marker = {queue[k].user_id : k \in DOMAIN queue}
    /\ matches = <<>>
    /\ catalog = {"p1"}
    /\ timers = {}
    /\ inflight = {}
    /\ tick = Idle
    /\ notified = {}
    /\ sent = {}
    /\ resp = NoResp
    /\ rated = <<>>
    /\ InitAux

NextTick ==
    \/ TickStart
    \/ TickCreate
    \/ TickRemove
    \/ TickFail
    \/ TickReturn

SpecTick == InitTick /\ [][NextTick]_vars

\* C27: a tick over a snapshot of n entries has created at most n \div 2
\* matches
C27_AtMostHalfAsManyMatches ==
    tick.pc # "idle" => Len(tick.created_matches) <= Len(tick.players) \div 2

\* the users of the matches the running tick has created so far
Paired ==
    UNION {Participants(m) : m \in Range(tick.created_matches)}
        \cup (IF tick.m # 0 THEN Participants(tick.m) ELSE {})

\* C28: no user is a player of two matches created by the same tick
C28_PairedOncePerTick ==
    \A a, b \in DOMAIN tick.created_matches :
        a # b => Participants(tick.created_matches[a]) \cap Participants(tick.created_matches[b]) = {}

\* the positions of the snapshot whose user the running tick has not paired
Unpaired == {k \in DOMAIN tick.players : tick.players[k].user_id \notin Paired}

\* C29: the match created by a tick in which no await has failed so far
\* (i is still at the first entry) has as player1 the earliest entry not yet
\* paired and as player2 another entry not yet paired whose rating is
\* closest to player1's among those
C29_EarliestWithClosest ==
    [][(TickCreate /\ tick.i = 1) =>
          \E a \in Unpaired : \E b \in Unpaired \ {a} :
              /\ \A c \in Unpaired : a <= c
              /\ matches'[Len(matches')].player1_id = tick.players[a].user_id
              /\ matches'[Len(matches')].player2_id = tick.players[b].user_id
              /\ \A c \in Unpaired \ {a} :
                    Abs(tick.players[a].rating - tick.players[b].rating)
                        <= Abs(tick.players[a].rating - tick.players[c].rating)]_vars

\* C30: a tick creates a match only for two players neither of whom has a
\* PENDING or ACTIVE match at that moment
C30_RecheckBeforeCreate ==
    [][TickCreate =>
          /\ LiveMatches(matches'[Len(matches')].player1_id) = {}
          /\ LiveMatches(matches'[Len(matches')].player2_id) = {}]_vars

\* C31: a tick that has completed no pair so far creates a match only for
\* players without a PENDING or ACTIVE match: entries left behind by a pass
\* that failed after its commit are not paired a second time
C31_LingeringEntriesNotPairedAgain ==
    [][(TickCreate /\ Paired = {}) =>
          \A u \in {matches'[Len(matches')].player1_id, matches'[Len(matches')].player2_id} :
              LiveMatches(u) = {}]_vars

\* ------------------------------------------------------------- expiry
\* the key queue:user:<u>, set with ex=3600, runs out; the member of the
\* sorted set has no expiry of its own
MarkerExpire(u) ==
    /\ u \in marker
    /\ marker' = marker \ {u}
    /\ Quiet
    /\ UNCHANGED <<rating, queue, matches, catalog, timers, inflight, tick, notified, rated>>
    /\ UNCHANGED aux

NextExpiry ==
    \/ \E u \in Users : MarkerExpire(u)
    \/ TickStart
    \/ TickCreate
    \/ TickRemove
    \/ TickFail
    \/ TickReturn

SpecExpiry == InitTick /\ [][NextExpiry]_vars

\* C32: when the 1-hour expiry of a user's enqueueing runs out, no entry of
\* the user remains in the sorted set, and a tick that starts later finds
\* only entries that have not expired
C32_ExpiredEntryIsGone ==
    [][/\ \A u \in Users : MarkerExpire(u) => ~InQueue(u)'
       /\ TickStart => \A k \in DOMAIN queue : queue[k].user_id \in marker]_vars

\* C33: when the acceptance timer cancels a PENDING match that exactly one
\* player accepted, the player who accepted is told that the opponent did
\* not accept and the player who did not is told that they did not
C33_TimeoutReasonNamesIdleSide ==
    [][\A r \in inflight :
          (/\ r.op = "accept_timeout"
           /\ matches[r.m].status = "PENDING"
           /\ matches[r.m].player1_accepted # matches[r.m].player2_accepted
           /\ matches[r.m].player1_accepted = r.a1
           /\ matches[r.m].player2_accepted = r.a2
           /\ AcceptanceTimeoutCommit(r))
             => /\ matches'[r.m].status = "CANCELLED"
                /\ \A u \in Participants(r.m) :
                      Note(r.m, u, "match_cancelled",
                           IF OwnFlag(r.m, u) THEN "opponent did not accept in time"
                           ELSE "You did not accept in time") \in sent']_vars

\* C34: the commit of a participant's decline of a PENDING match leaves the
\* match CANCELLED with end_time set, and a decline of a match in any other
\* status changes no match and starts nothing
C34_DeclineCancels ==
    [][/\ \A r \in inflight :
             (r.op = "decline" /\ matches[r.m].status = "PENDING" /\ DeclineCommit(r))
                 => /\ matches'[r.m].status = "CANCELLED"
                    /\ matches'[r.m].end_time
       /\ \A m \in MatchIds : \A u \in Participants(m) :
             (matches[m].status # "PENDING" /\ DeclineRead(m, u))
                 => /\ matches' = matches
                    /\ inflight' = inflight]_vars

\* C35: a capitulation of a participant of an ACTIVE match is carried out
\* for the other participant as winner; its match update leaves the match
\* COMPLETED with that winner and end_time set, and its rating update gives
\* the winner the Elo result of score 1 and the capitulating player that of
\* score 0
C35_CapitulationCompletes ==
    [][/\ \A m \in MatchIds : \A loser \in Participants(m) :
             (matches[m].status = "ACTIVE" /\ CapitulateRead(m, loser))
                 => \E r \in inflight' \ inflight :
                       /\ r.op = "capitulate" /\ r.m = m
                       /\ r.u \in Participants(m) \ {loser}
       /\ \A r \in inflight :
             (r.op = "capitulate" /\ finish_match_with_winner(r))
                 => /\ matches'[r.m].status = "COMPLETED"
                    /\ matches'[r.m].winner_id = r.u
                    /\ matches'[r.m].end_time
       /\ \A r \in inflight : \A loser \in Participants(r.m) \ {r.u} :
             (r.op = "capitulate_rate" /\ RateCommit(r))
                 => /\ rating'[r.u] = calculate_new_rating(rating[r.u], rating[loser], 2)
                    /\ rating'[loser] = calculate_new_rating(rating[loser], rating[r.u], 0)
                    /\ rating'[r.u] >= rating[r.u]
                    /\ rating'[loser] <= rating[loser]]_vars

C35_Witness ==
    /\ resp = <<"capitulate_rate", "completed">>
    /\ matches[1].status = "COMPLETED"
    /\ matches[1].winner_id = "u1"
    /\ matches[1].end_time
    /\ rated[1] = 1
    /\ rating["u1"] > DEFAULT_RATING
    /\ rating["u2"] < HigherRating

\* C36: an incorrect solution submitted by a participant of an ACTIVE match
\* changes neither the match (status, winner_id, end_time, acceptance
\* flags) nor any rating, and sends exactly one message, a submission_result
\* to the submitter
C36_IncorrectVerdictOnlyNotifies ==
    [][\A m \in MatchIds : \A u \in Participants(m) :
          (matches[m].status = "ACTIVE" /\ LegacySubmitRead(m, u, FALSE))
              => /\ matches' = matches
                 /\ rating' = rating
                 /\ rated' = rated
                 /\ sent' = {Note(m, u, "submission_result", "")}]_vars

\* C37: a verdict submission or a capitulation is refused with forbidden
\* when the caller is not a player of the ACTIVE match and with conflict
\* when a player calls it on a match that is not ACTIVE; a refused call
\* changes no match and starts no work
C37_RefusalsByKind ==
    [][\A m \in MatchIds : \A u \in Users :
          /\ (SubmitRead(m, u) /\ u \notin Participants(m) /\ matches[m].status = "ACTIVE")
                => resp' = <<"submit", "forbidden">> /\ matches' = matches /\ inflight' = inflight
          /\ (SubmitRead(m, u) /\ u \in Participants(m) /\ matches[m].status # "ACTIVE")
                => resp' = <<"submit", "conflict">> /\ matches' = matches /\ inflight' = inflight
          /\ (CapitulateRead(m, u) /\ u \notin Participants(m) /\ matches[m].status = "ACTIVE")
                => resp' = <<"capitulate", "forbidden">> /\ matches' = matches /\ inflight' = inflight
          /\ (CapitulateRead(m, u) /\ u \in Participants(m) /\ matches[m].status # "ACTIVE")
                => resp' = <<"capitulate", "conflict">> /\ matches' = matches /\ inflight' = inflight]_vars

\* ---------------------------------------------------- problem selection
\* a queue as in InitTick, found by a tick when the first user in it has a
\* match over a problem of the catalog behind them that the draw timer
\* completed
InitProblem ==
    /\ rating \in [Users -> {DEFAULT_RATING, HigherRating}]
    /\ \E n \in 2..MaxSnapshot :
          queue \in {q \in [1..n -> [user_id : Users, rating : {DEFAULT_RATING, HigherRating}]] :
                        /\ \A a, b \in 1..n : a # b => q[a].user_id # q[b].user_id
                        /\ \A a \in 1..n : q[a].rating = rating[q[a].user_id]}
    /\ marker = {queue[k].user_id : k \in DOMAIN queue}
    /\ catalog \in SUBSET Problems
    /\ catalog # {}
    /\ \E solved \in catalog, other \in Users \ {queue[1].user_id} :
          matches = <<[NewMatch(queue[1].user_id, other, solved) EXCEPT
                          !.status = "COMPLETED", !.end_time = TRUE,
                          !.player1_accepted = TRUE, !.player2_accepted = TRUE]>>
    /\ timers = {}
    /\ inflight = {}
    /\ tick = Idle
    /\ notified = {<<1, "match_found", "">>, <<1, "match_started", "">>, <<1, "match_draw", "">>}
    /\ sent = {}
    /\ resp = NoResp
    /\ rated = <<0>>
    /\ InitAux

SpecProblem == InitProblem /\ [][NextTick]_vars

\* the position of a problem id in the ascending order of the ids
IdIndex(p) == CHOOSE k \in DOMAIN ProblemIds : ProblemIds[k] = p

\* C38: the problem of a match that a tick creates is, when some problem of
\* the catalog is not the problem of a COMPLETED match of either player, one
\* of those problems at the least distance from (r1 + r2) \div 2, and of
\* these the one with the lowest id
C38_ClosestUnsolvedProblem ==
    [][TickCreate =>
          LET p1 == tick.players[tick.i]
              p2 == tick.players[BestMatchIdx(tick.players, tick.i)]
              target == (p1.rating + p2.rating) \div 2
              solved == {matches[k].problem_id : k \in
                            {k \in MatchIds : /\ matches[k].status = "COMPLETED"
                                              /\ Participants(k) \cap {p1.user_id, p2.user_id} # {}}}
              remaining == catalog \ solved
              chosen == matches'[Len(matches')].problem_id
          IN remaining # {} =>
                /\ chosen \in remaining
                /\ \A q \in remaining :
                      \/ Abs(problem_rating(chosen) - target) < Abs(problem_rating(q) - target)
                      \/ /\ Abs(problem_rating(chosen) - target) = Abs(problem_rating(q) - target)
                         /\ IdIndex(chosen) <= IdIndex(q)]_vars

\* C39: the step that updates the ratings for a match completed with a
\* winner leaves in player1_old_rating and player1_new_rating the rating of
\* player1_id before and after the step, and in player2_old_rating and
\* player2_new_rating those of player2_id
C39_RatingColumnsFollowPlayers ==
    [][\A m \in MatchIds :
          (rated'[m] = rated[m] + 1 /\ matches'[m].winner_id # NoUser)
              => /\ matches'[m].player1_old_rating = rating[matches[m].player1_id]
                 /\ matches'[m].player1_new_rating = rating'[matches[m].player1_id]
                 /\ matches'[m].player2_old_rating = rating[matches[m].player2_id]
                 /\ matches'[m].player2_new_rating = rating'[matches[m].player2_id]]_vars

\* C40: when a fan-out to u returns, every sink that was in the list of u
\* when the fan-out began, is still in it and can be sent to has got the
\* message, whatever connected, disconnected or was removed meanwhile
C40_StayingSinksServed ==
    [][\A f \in fanout :
          SendReturn(f)
             => \A s \in f.start :
                   (s \notin closed /\ s \in Range(active_connections[f.u])) => s \in Got(f)]_vars

====
